---------------------------- MODULE Spec2Model ----------------------------
(***************************************************************************)
(* A model of the EV charging simulator (ev_model): the Battery state      *)
(* machine and Schedule predicate (models/bricks.py), the EV and Charger   *)
(* dispatch (models/vehicles.py, models/charger.py), the daily constrained *)
(* optimizer and the strategy runner (models/controller.py).               *)
(*                                                                         *)
(* Numbers.  The program computes in float64; the model computes exactly,  *)
(* in fixed point: an energy (kWh) or a power (kW) v is the integer        *)
(* v * Scale.  A state of charge is a fraction of the battery size: the    *)
(* SOC s of a battery b is the integer s * SocDen(b), so that the product  *)
(* battery_size * soc is exact.  Float rounding is outside the model; the  *)
(* int64 truncation of the recorders is inside it.                         *)
(***************************************************************************)
EXTENDS Integers, Sequences, FiniteSets, TLC

VARIABLES
  battery,     \* SpecBattery: the Battery object
  constructed, \* SpecBattery: the Battery object as its constructor left it
  clock,       \* SpecBattery: the timestep the next run_model call is given
  last,        \* SpecBattery: what the last run_model call was given and returned
  year_in,     \* SpecYear: the arguments of get_charging_profile_for_year
  dates_left,  \* SpecYear: the dates the loop has still to visit
  temp_date,   \* SpecYear: the date of the current iteration
  new_frames,  \* SpecYear: the day profiles appended so far
  day_dataf,   \* SpecYear: the frame the stages of the day pipeline hand on
  day_pc,      \* SpecYear: the statement that runs next
  charger_load_profile, \* SpecYear: the returned year profile
  charged,       \* SpecScenario: the charger's charging_profile with the year profile
  self,          \* Spec: the fields of the Optimized_Sites object (references)
  heap,          \* Spec: the objects, by reference
  original,      \* Spec: the objects of self as they were when the run began
  control_idx,   \* Spec: run_all_control_methods, the strategy it is at
  run_pc,        \* Spec: the statement that runs next
  copy_chargers, \* Spec: run_control_method, reference of the charger map in use
  site_df,       \* Spec: run_optimizer, reference of the strategy's site frame
  results_df,    \* Spec: run_optimizer, its results frame
  ci,            \* Spec: run_optimizer, position of sim_charger in the charger map
  ei,            \* Spec: run_optimizer, position of temp_ev in sim_charger.ev_list
  drawn,         \* Spec: per charger and vehicle, the energy the battery consumed
                 \*       at each timestep in its latest charging_profile call
  sites,         \* Spec: what run_control_method returned, per strategy so far
  returned       \* Spec: what run_all_control_methods returned

battery_vars == <<battery, constructed, clock, last>>
year_vars == <<year_in, dates_left, temp_date, new_frames, day_dataf, day_pc,
               charger_load_profile, charged>>
run_vars == <<self, heap, original, control_idx, run_pc,
              copy_chargers, site_df, results_df, ci, ei, drawn, sites,
              returned>>
vars == <<battery, constructed, clock, last, year_in, dates_left, temp_date,
          new_frames, day_dataf, day_pc, charger_load_profile, charged, self,
          heap,
          original, control_idx, run_pc, copy_chargers, site_df,
          results_df, ci, ei, drawn, sites, returned>>

\* the variables of the strategy runner, where it does not run
RunOff ==
  /\ self = <<>> /\ heap = <<>> /\ original = <<>>
  /\ control_idx = 0 /\ run_pc = "off" /\ copy_chargers = <<>>
  /\ site_df = <<>> /\ results_df = <<>> /\ ci = 0 /\ ei = 0
  /\ drawn = <<>> /\ sites = <<>> /\ returned = <<>>

----------------------------------------------------------------------------
(* Bounds of the model *)

\* number of calendar days in the simulated index (the program runs a year)
NDays == 2
\* largest energy offer handed to run_model, in fixed-point units
MaxOffer == 3

----------------------------------------------------------------------------
(* Numbers *)

\* sim_parameters.POWER_TO_ENERGY_FACTOR: the 30-minute sampling interval in
\* hours, as the fraction PTE_NUM / PTE_DEN
PTE_NUM == 1
PTE_DEN == 2

\* fixed-point scale of energies and powers: halves are exact
Scale == PTE_DEN

\* power * POWER_TO_ENERGY_FACTOR
ToEnergy(p) == (p * PTE_NUM) \div PTE_DEN
\* energy / POWER_TO_ENERGY_FACTOR
ToPower(e) == (e * PTE_DEN) \div PTE_NUM

\* numpy's astype('int64') of a float: truncation toward zero, on a value whose
\* fixed-point denominator is den; the result is a whole number
TruncToInt(v, den) == IF v >= 0 THEN v \div den ELSE -((-v) \div den)

Min(a, b) == IF a <= b THEN a ELSE b
Max(a, b) == IF a >= b THEN a ELSE b

----------------------------------------------------------------------------
(* Timesteps: create_timesteps, a 30-minute index over whole days *)

\* 30-minute frequency: two timesteps in an hour
SlotsPerHour == 2
\* the hours of a model day (a real day has 24)
DayHours == <<0, 1>>
SlotsPerDay == SlotsPerHour * Len(DayHours)
\* weekday() of the first day of the index (0 = Monday): the index starts on a
\* Friday, so that the second day is a Saturday
FirstWeekday == 4

NSteps == NDays * SlotsPerDay
Timesteps == 1 .. NSteps
\* timestamp.date(), time(), hour and weekday() of timestep t
DateOf(t) == (t - 1) \div SlotsPerDay
TimeOf(t) == (t - 1) % SlotsPerDay
HourOf(t) == DayHours[(TimeOf(t) \div SlotsPerHour) + 1]
WeekdayOf(t) == (FirstWeekday + DateOf(t)) % 7

----------------------------------------------------------------------------
(* bricks.Schedule *)

\* Schedule(arrival_time, departure_time, list_days) after __post_init__:
\* list_days None becomes Monday to Friday. An optional argument is <<>> for
\* None and <<v>> for the value v.
Schedule(arrival, departure, days) ==
  [arrival_time |-> arrival, departure_time |-> departure,
   list_days |-> IF days = <<>> THEN 0 .. 4 ELSE days[1]]

\* a window that is open at its far end
is_plugged_DepartureExcluded(s, t) ==
  IF WeekdayOf(t) \in s.list_days
    THEN s.arrival_time <= TimeOf(t) /\ TimeOf(t) < s.departure_time
    ELSE FALSE

is_plugged(s, t) ==
  IF WeekdayOf(t) \in s.list_days
    THEN s.arrival_time <= TimeOf(t) /\ TimeOf(t) <= s.departure_time
    ELSE FALSE

get_plugged_profile(s, timesteps) ==
  [i \in 1 .. Len(timesteps) |-> is_plugged(s, timesteps[i])]

----------------------------------------------------------------------------
(* bricks.Battery *)

\* denominator of the SOC values of battery b (see Numbers)
SocDen(b) == b.battery_size

\* Battery(current_soc, target_soc, battery_size, schedule, battery_losses)
\* after __post_init__; cur, tgt and loss are numerators over size
Battery(cur, tgt, size, sched, loss) ==
  LET t1 == IF tgt > size THEN size ELSE tgt
      c1 == IF cur > size THEN size ELSE cur
  IN [current_soc |-> c1, target_soc |-> t1, battery_size |-> size,
      schedule |-> sched, battery_losses |-> loss, initial_soc |-> c1]

current_energy_stored(b) == (b.battery_size * b.current_soc) \div SocDen(b)
target_energy_stored(b) == (b.battery_size * b.target_soc) \div SocDen(b)
\* a requirement that forgets the energy already stored
requested_energy_FromEmpty(b) == target_energy_stored(b)

requested_energy(b) == target_energy_stored(b) - current_energy_stored(b)
target_charge_achieved(b) == b.current_soc = b.target_soc

calculate_losses(b) ==
  [b EXCEPT !.current_soc = b.current_soc - b.battery_losses]

\* a charge that is never clipped at the target: the whole offer is stored
battery_is_charging_Unclipped(b, energy_input) ==
  <<[b EXCEPT !.current_soc =
       (((b.current_soc * b.battery_size) \div SocDen(b) + energy_input)
          * SocDen(b)) \div b.battery_size],
    energy_input>>

\* the pair <<battery after the call, returned energy>>
battery_is_charging(b, energy_input) ==
  LET temp_charge_amount ==
        (b.current_soc * b.battery_size) \div SocDen(b) + energy_input
  IN IF temp_charge_amount <= (b.battery_size * b.target_soc) \div SocDen(b)
       THEN <<[b EXCEPT !.current_soc =
                 (temp_charge_amount * SocDen(b)) \div b.battery_size],
              energy_input>>
       ELSE <<[b EXCEPT !.current_soc = b.target_soc],
              target_energy_stored(b) - current_energy_stored(b)>>

\* a reset that is forgotten: the SOC keeps the value the losses left
reset_current_soc_Skipped(b) == b

reset_current_soc(b) == [b EXCEPT !.current_soc = b.initial_soc]

\* a plugged battery at its target that is reset as if it were unplugged
battery_is_plugged_ResetAtTarget(b, current_dt, energy_input) ==
  IF is_plugged(b.schedule, current_dt) /\ ~target_charge_achieved(b)
    THEN battery_is_charging(b, energy_input)
    ELSE <<reset_current_soc(b), 0>>

battery_is_plugged(b, current_dt, energy_input) ==
  IF is_plugged(b.schedule, current_dt)
    THEN IF ~target_charge_achieved(b)
           THEN battery_is_charging(b, energy_input)
           ELSE <<b, 0>>
    ELSE <<reset_current_soc(b), 0>>

run_model(b, current_dt, energy_input) ==
  battery_is_plugged(calculate_losses(b), current_dt, energy_input)


----------------------------------------------------------------------------
(* Frames: a pandas DataFrame is the sequence of its rows, a row the record *)
(* of its index label (ts) and its columns                                  *)

\* the row r with column col set to v (added when it is new)
SetCol(r, col, v) ==
  [k \in DOMAIN r \cup {col} |-> IF k = col THEN v ELSE r[k]]

\* the frame a one-column series makes over the index: values[i] at timestep i
SeriesFrame(values, col) ==
  [i \in 1 .. Len(values) |-> SetCol([ts |-> i], col, values[i])]

\* a sort_index() that is forgotten: the rows stay as they are
sort_index_Skipped(dataf) == dataf

\* dataf.index: the labels of a frame, in row order
Labels(dataf) == [i \in 1 .. Len(dataf) |-> dataf[i].ts]

\* dataf.loc[ts]: the row of a frame with label ts
RowAt(dataf, ts) == dataf[CHOOSE i \in 1 .. Len(dataf) : dataf[i].ts = ts]

\* DataFrame.sort_index(): rows by ascending label
sort_index(dataf) ==
  LET n == Len(dataf)
      rank(i) == Cardinality({j \in 1 .. n :
                    \/ dataf[j].ts < dataf[i].ts
                    \/ (dataf[j].ts = dataf[i].ts /\ j < i)}) + 1
  IN [r \in 1 .. n |-> dataf[CHOOSE i \in 1 .. n : rank(i) = r]]

\* a sort that leaves the rows as they are
sort_values_Unranked(dataf, tie) == dataf

\* a sort by descending target
sort_values_Descending(dataf, tie) ==
  LET n == Len(dataf)
      before(j, i) == \/ dataf[j].target > dataf[i].target
                      \/ (dataf[j].target = dataf[i].target /\ tie[j] < tie[i])
      rank(i) == Cardinality({j \in 1 .. n : before(j, i)}) + 1
  IN [r \in 1 .. n |-> dataf[CHOOSE i \in 1 .. n : rank(i) = r]]

\* DataFrame.sort_values(target), default kind quicksort: rows by ascending
\* target; the order of rows with equal target is not defined by pandas, it is
\* the order tie gives their positions (tie[i] the priority of position i)
sort_values(dataf, tie) ==
  LET n == Len(dataf)
      before(j, i) == \/ dataf[j].target < dataf[i].target
                      \/ (dataf[j].target = dataf[i].target /\ tie[j] < tie[i])
      rank(i) == Cardinality({j \in 1 .. n : before(j, i)}) + 1
  IN [r \in 1 .. n |-> dataf[CHOOSE i \in 1 .. n : rank(i) = r]]

\* pd.concat(frames): the rows of the frames one after the other
RECURSIVE concat(_)
concat(frames) ==
  IF frames = <<>> THEN <<>> ELSE Head(frames) \o concat(Tail(frames))

----------------------------------------------------------------------------
(* data_processing: the site frame of a strategy *)

create_dataf_base(electricity_demand) ==
  [i \in 1 .. Len(electricity_demand) |->
     LET r == electricity_demand[i]
         r1 == IF "site_energy" \in DOMAIN r
                 THEN SetCol(r, "site_load", ToPower(r.site_energy)) ELSE r
     IN SetCol(r1, "target", HourOf(r.ts))]

\* the one column of target_dataf is renamed to target, then the columns of
\* electricity_demand follow (pd.concat on axis 1, rows matched by label)
create_dataf_for_control(target_dataf, electricity_demand) ==
  [i \in 1 .. Len(target_dataf) |->
     LET value == target_dataf[i][CHOOSE k \in DOMAIN target_dataf[i] : k # "ts"]
         other == CHOOSE j \in 1 .. Len(electricity_demand) :
                    electricity_demand[j].ts = target_dataf[i].ts
     IN [k \in DOMAIN electricity_demand[other] \cup {"target"} |->
           IF k = "target" THEN value ELSE electricity_demand[other][k]]]

\* target_dataf is <<>> (None) or <<frame>>. The middle branch is the call
\* site_dataf_creator makes for the PV strategy, with one object as both
\* arguments: the rename of the target column renames the demand column too,
\* the concatenation has the column twice, the first becomes the site energy
\* and the columns 1 and 2 (the second target, the site energy) are kept.
optimizer_selector(electricity_demand, target_dataf) ==
  IF target_dataf = <<>> THEN create_dataf_base(electricity_demand)
  ELSE IF target_dataf[1] = electricity_demand
    THEN [i \in 1 .. Len(target_dataf[1]) |->
            LET value == target_dataf[1][i][CHOOSE k \in
                           DOMAIN target_dataf[1][i] : k # "ts"]
            IN [ts |-> target_dataf[1][i].ts, target |-> value,
                site_energy |-> value]]
    ELSE create_dataf_for_control(target_dataf[1], electricity_demand)

----------------------------------------------------------------------------
(* controller: the daily constrained optimizer *)

\* an availability that ignores the import limit
charger_load_availability_NoLimit(site_load_demand, max_import_demand, max_charger_output) ==
  max_charger_output

\* an availability without the floor at zero
charger_load_availability_NoFloor(site_load_demand, max_import_demand, max_charger_output) ==
  IF site_load_demand + max_charger_output > max_import_demand
    THEN max_import_demand - site_load_demand
    ELSE max_charger_output

\* one element of the np.where pair of charger_load_availability_profile
charger_load_availability(site_load_demand, max_import_demand, max_charger_output) ==
  LET v == IF site_load_demand + max_charger_output > max_import_demand
             THEN max_import_demand - site_load_demand
             ELSE max_charger_output
  IN IF v < 0 THEN 0 ELSE v

charger_load_availability_profile(site_load_demand_profile, max_import_demand, max_charger_output) ==
  [i \in 1 .. Len(site_load_demand_profile) |->
     charger_load_availability(site_load_demand_profile[i],
                               max_import_demand[i], max_charger_output)]

\* positions of the rows a boolean mask selects, in order
RECURSIVE Selected(_, _)
Selected(mask, i) ==
  IF i > Len(mask) THEN <<>>
  ELSE (IF mask[i] THEN <<i>> ELSE <<>>) \o Selected(mask, i + 1)

\* the number of selected positions up to and including i
CountUpTo(mask, i) == Cardinality({j \in 1 .. i : mask[j]})

\* a load profile that offers the charger's max output at every plugged slot
combine_load_profile_FullOutput(site_dataf, new_ev, max_import_demand, max_charger_output) ==
  LET plugged_time == get_plugged_profile(new_ev.battery.schedule,
                        [i \in 1 .. Len(site_dataf) |-> site_dataf[i].ts])
  IN [i \in 1 .. Len(site_dataf) |->
        SetCol(site_dataf[i], "charger_load_profile",
               IF plugged_time[i] THEN max_charger_output ELSE 0)]

combine_load_profile(site_dataf, new_ev, max_import_demand, max_charger_output) ==
  LET plugged_time == get_plugged_profile(new_ev.battery.schedule,
                        [i \in 1 .. Len(site_dataf) |-> site_dataf[i].ts])
      sel == Selected(plugged_time, 1)
      avail == charger_load_availability_profile(
                 [k \in 1 .. Len(sel) |-> ToPower(site_dataf[sel[k]].site_energy)],
                 [k \in 1 .. Len(sel) |-> max_import_demand[sel[k]].peak_import],
                 max_charger_output)
  IN [i \in 1 .. Len(site_dataf) |->
        SetCol(site_dataf[i], "charger_load_profile",
               IF plugged_time[i] THEN avail[CountUpTo(plugged_time, i)]
               ELSE 0)]

\* the cumulative sum of a sequence of numbers
RECURSIVE SumTo(_, _)
SumTo(xs, i) == IF i = 0 THEN 0 ELSE xs[i] + SumTo(xs, i - 1)

\* a cumulative column of power, without the factor that makes it energy
cumsum_energy_consumed_OfPower(site_dataf, tie) ==
  LET temp_dataf == sort_values(site_dataf, tie)
      power == [i \in 1 .. Len(temp_dataf) |-> temp_dataf[i].charger_load_profile]
  IN [i \in 1 .. Len(temp_dataf) |->
        SetCol(temp_dataf[i], "cumulative_energy", SumTo(power, i))]

cumsum_energy_consumed(site_dataf, tie) ==
  LET temp_dataf == sort_values(site_dataf, tie)
      energy == [i \in 1 .. Len(temp_dataf) |->
                   ToEnergy(temp_dataf[i].charger_load_profile)]
  IN [i \in 1 .. Len(temp_dataf) |->
        SetCol(temp_dataf[i], "cumulative_energy", SumTo(energy, i))]

\* the count of the rows below the requirement, without the row that reaches it
find_last_index_BelowOnly(dataf, energy_required) ==
  Cardinality({i \in 1 .. Len(dataf) :
                 dataf[i].cumulative_energy < energy_required})

find_last_index(dataf, energy_required) ==
  LET last_index == Cardinality({i \in 1 .. Len(dataf) :
                       dataf[i].cumulative_energy < energy_required}) + 1
  IN IF last_index > Len(dataf) THEN Len(dataf) ELSE last_index

generate_filter(dataf, energy_required) ==
  LET last_charging_index == find_last_index(dataf, energy_required)
  IN [i \in 1 .. Len(dataf) |-> i <= last_charging_index]

\* a loop that never clips: every selected slot keeps its full availability
OptimizedFrom_NoClip(org, ii, total, energy_required) ==
  [k \in 1 .. Len(org) - ii + 1 |-> org[ii + k - 1]]

\* the loop of calculate_optimized_charging_profile from position ii on, with
\* the running total_charger_energy_output
RECURSIVE OptimizedFrom(_, _, _, _)
OptimizedFrom(org, ii, total, energy_required) ==
  IF ii > Len(org) THEN <<>>
  ELSE LET full == ToEnergy(org[ii])
           clipped == total + full > energy_required
           temp_charger_energy_output ==
             IF clipped THEN energy_required - total ELSE full
           temp_charger_power_output ==
             IF clipped THEN ToPower(temp_charger_energy_output) ELSE org[ii]
       IN <<temp_charger_power_output>> \o
          OptimizedFrom(org, ii + 1, total + temp_charger_energy_output,
                        energy_required)

calculate_optimized_charging_profile(dataf, energy_required) ==
  LET filt == generate_filter(dataf, energy_required)
      sel == Selected(filt, 1)
      org_charger_load_profile ==
        [k \in 1 .. Len(sel) |-> dataf[sel[k]].charger_load_profile]
  IN OptimizedFrom(org_charger_load_profile, 1, 0, energy_required)

apply_new_charging_profile(dataf, energy_required) ==
  LET filt == generate_filter(dataf, energy_required)
      updated_charger_load_profile ==
        calculate_optimized_charging_profile(dataf, energy_required)
      temp_dataf ==
        [i \in 1 .. Len(dataf) |->
           [ts |-> dataf[i].ts,
            charger_load_profile |->
              IF filt[i] THEN updated_charger_load_profile[CountUpTo(filt, i)]
              ELSE 0]]
  IN sort_index(temp_dataf)

get_charging_profile_for_single_day(day, ev, max_import_demand, max_charger_load, tie) ==
  apply_new_charging_profile(
    cumsum_energy_consumed(
      combine_load_profile(day, ev, max_import_demand, max_charger_load), tie),
    requested_energy(ev.battery))

get_single_day_data(date, site_data) ==
  LET filt == [i \in 1 .. Len(site_data) |-> DateOf(site_data[i].ts) = date]
      sel == Selected(filt, 1)
  IN [k \in 1 .. Len(sel) |-> site_data[sel[k]]]

----------------------------------------------------------------------------
(* SpecBattery: a constructed Battery stepped through the index by run_model *)

BatterySizes == {2, 4}
\* numerators of the SOC arguments of the constructor: below 0, inside [0, 1]
\* and above 1
SocArgs(size) == -1 .. size + 1
LossArgs == {0, 1}
Schedules ==
  { Schedule(1, 2, <<>>), Schedule(0, SlotsPerDay - 1, <<{4, 5}>>),
    Schedule(0, 1, <<{5}>>) }

NoCall == [stepped |-> FALSE, t |-> 0, offer |-> 0, energy |-> 0,
           plugged |-> FALSE, soc_before |-> 0]

InitBattery ==
  /\ \E size \in BatterySizes, sched \in Schedules, loss \in LossArgs :
       \E cur \in SocArgs(size), tgt \in SocArgs(size) :
         battery = Battery(cur, tgt, size, sched, loss)
  /\ constructed = battery
  /\ clock = 1
  /\ last = NoCall
  /\ year_in = <<>> /\ dates_left = {} /\ temp_date = -1 /\ new_frames = <<>>
  /\ day_dataf = <<>> /\ day_pc = "off" /\ charger_load_profile = <<>>
  /\ charged = <<>>
  /\ RunOff

\* Battery.run_model(current_dt, energy_input), called for the timesteps in order
RunModel ==
  /\ clock \in Timesteps
  /\ \E offer \in 0 .. MaxOffer :
       LET r == run_model(battery, clock, offer)
       IN /\ battery' = r[1]
          /\ last' = [stepped |-> TRUE, t |-> clock, offer |-> offer,
                      energy |-> r[2],
                      plugged |-> is_plugged(battery.schedule, clock),
                      soc_before |-> battery.current_soc]
  /\ clock' = clock + 1
  /\ UNCHANGED constructed
  /\ UNCHANGED <<year_vars, run_vars>>

NextBattery == RunModel

SpecBattery == InitBattery /\ [][NextBattery]_vars

\* the day profiles of get_charging_profile_for_year for a set of dates, here
\* visited earliest first (SpecYear visits them in every order)
RECURSIVE DayProfiles(_, _, _, _, _, _)
DayProfiles(dates, site_data, ev, max_charger_output, max_import_demand, tie) ==
  IF dates = {} THEN <<>>
  ELSE LET d == CHOOSE x \in dates : \A y \in dates : x <= y
       IN <<get_charging_profile_for_single_day(
              get_single_day_data(d, site_data), ev,
              get_single_day_data(d, max_import_demand),
              max_charger_output, tie)>>
          \o DayProfiles(dates \ {d}, site_data, ev, max_charger_output,
                         max_import_demand, tie)

get_charging_profile_for_year(site_data, ev, max_charger_output, max_import_demand, tie) ==
  LET new_frames_ ==
        DayProfiles({DateOf(site_data[i].ts) : i \in 1 .. Len(site_data)},
                    site_data, ev, max_charger_output, max_import_demand, tie)
  IN sort_index(concat(new_frames_))

----------------------------------------------------------------------------
(* bricks.TimeserieRecorder, vehicles.EV *)

\* TimeserieRecorder(index, header) after __post_init__: every column of the
\* header but the first, zero at every timestep of the index
TimeserieRecorder(columns) == [c \in columns |-> [t \in Timesteps |-> 0]]

\* recorded_data.loc[index, col_name] = values.astype('int64'); den is the
\* fixed-point denominator of the values
record_batch_data(recorder, index, values, den, col_name) ==
  [recorder EXCEPT ![col_name] =
     [t \in Timesteps |->
        IF \E k \in 1 .. Len(index) : index[k] = t
          THEN TruncToInt(values[CHOOSE k \in 1 .. Len(index) : index[k] = t],
                          den)
          ELSE @[t]]]

\* create_single_EV: an EV with its battery and an EV recorder
EV(name, bat) ==
  [name |-> name, battery |-> bat,
   data_recorder |-> TimeserieRecorder({"SOC", "ENERGY_INPUT", "PLUGGED"})]

\* the loop of EV.charging_profile from position index on: the triple of the
\* battery after the last step and the sequences of <<soc, energy, plugged>>
\* the steps produced
RECURSIVE ChargingSteps(_, _, _, _)
ChargingSteps(bat, timesteps, charger_max_energy_outputs, index) ==
  IF index > Len(timesteps) THEN <<bat, <<>>>>
  ELSE LET r == run_model(bat, timesteps[index],
                          charger_max_energy_outputs[index])
           rest == ChargingSteps(r[1], timesteps, charger_max_energy_outputs,
                                 index + 1)
       IN <<rest[1],
            <<[soc |-> r[1].current_soc, energy |-> r[2],
               plugged |-> IF is_plugged(r[1].schedule, timesteps[index])
                             THEN 1 ELSE 0]>> \o rest[2]>>

\* EV.charging_profile: the pair <<ev after the call, energy_input_arr>>
EV_charging_profile(ev, timesteps, charger_max_energy_outputs) ==
  LET run == ChargingSteps(ev.battery, timesteps, charger_max_energy_outputs, 1)
      n == Len(timesteps)
      soc_arr == [i \in 1 .. n |-> run[2][i].soc]
      energy_input_arr == [i \in 1 .. n |-> run[2][i].energy]
      plugged_flag_arr == [i \in 1 .. n |-> run[2][i].plugged]
      rec1 == record_batch_data(ev.data_recorder, timesteps, soc_arr,
                                SocDen(ev.battery), "SOC")
      rec2 == record_batch_data(rec1, timesteps, energy_input_arr, Scale,
                                "ENERGY_INPUT")
      rec3 == record_batch_data(rec2, timesteps, plugged_flag_arr, 1, "PLUGGED")
  IN <<[ev EXCEPT !.battery = run[1], !.data_recorder = rec3],
       energy_input_arr>>

----------------------------------------------------------------------------
(* charger.Charger *)

\* create_single_charger: a charger with its vehicles and a charger recorder
Charger(name, max_output, ev_list) ==
  [name |-> name, max_output |-> max_output, ev_list |-> ev_list,
   data_recorder |-> TimeserieRecorder({"ENERGY_INPUT"})]

\* the loop over ev_list of Charger.charging_profile from vehicle k on: the
\* triple of the vehicles after their calls, total_charger_output, and the
\* dispatched_energy of each vehicle
RECURSIVE DispatchFrom(_, _, _, _, _)
DispatchFrom(ev_list, k, timesteps, schedule_energy_output, total) ==
  IF k > Len(ev_list) THEN <<ev_list, total, <<>>>>
  ELSE LET r == EV_charging_profile(ev_list[k], timesteps,
                                    schedule_energy_output)
           dispatched_energy == r[2]
           total1 == [i \in 1 .. Len(timesteps) |->
                        total[i] + ToPower(dispatched_energy[i])]
           rest == DispatchFrom([ev_list EXCEPT ![k] = r[1]], k + 1, timesteps,
                                schedule_energy_output, total1)
       IN <<rest[1], rest[2], <<dispatched_energy>> \o rest[3]>>

\* Charger.charging_profile(timesteps, schedule_charging): schedule_charging
\* is <<>> (None) or <<the array>>. The triple <<charger after the call,
\* total_charger_output, the dispatched_energy of each vehicle>>
Charger_charging_profile(sim_charger, timesteps, schedule_charging) ==
  LET n == Len(timesteps)
      schedule == IF schedule_charging = <<>>
                    THEN [i \in 1 .. n |->
                            sim_charger.max_output \div Len(sim_charger.ev_list)]
                    ELSE schedule_charging[1]
      schedule_energy_output == [i \in 1 .. n |-> ToEnergy(schedule[i])]
      run == DispatchFrom(sim_charger.ev_list, 1, timesteps,
                          schedule_energy_output, [i \in 1 .. n |-> 0])
      total_charger_output == run[2]
      rec == record_batch_data(sim_charger.data_recorder, timesteps,
               [i \in 1 .. n |-> ToEnergy(total_charger_output[i])], Scale,
               "ENERGY_INPUT")
  IN <<[sim_charger EXCEPT !.ev_list = run[1], !.data_recorder = rec],
       total_charger_output, run[3]>>

\* a recorder column as the program reads it back: whole numbers, as
\* fixed-point values
ColumnValues(recorder, col_name) ==
  [t \in Timesteps |-> recorder[col_name][t] * Scale]

----------------------------------------------------------------------------
(* SpecYear: get_charging_profile_for_year for one vehicle, a stage of the  *)
(* day pipeline (get_charging_profile_for_single_day) at a time             *)

\* the orders in which sort_values may leave rows of equal target
TieOrders ==
  {f \in [1 .. SlotsPerDay -> 1 .. SlotsPerDay] :
     \A i, j \in 1 .. SlotsPerDay : f[i] = f[j] => i = j}

\* site electricity demand over the index, energy per timestep
DemandSeries ==
  { [t \in Timesteps |-> 0],
    [t \in Timesteps |-> (TimeOf(t) + DateOf(t)) % 3],
    [t \in Timesteps |-> IF TimeOf(t) = 1 THEN 3 ELSE 1] }
\* site import limit over the index, power per timestep
LimitSeries ==
  { [t \in Timesteps |-> 4],
    [t \in Timesteps |-> IF TimeOf(t) % 2 = 0 THEN 2 ELSE 6] }
\* carbon intensity (or price) over the index
RankingSeries ==
  { [t \in Timesteps |-> (SlotsPerDay - TimeOf(t)) % 3],
    [t \in Timesteps |-> 7] }
MaxOutputs == {2, 4}
YearBatterySize == 6
YearBatteries ==
  { Battery(cur, tgt, YearBatterySize, sched, 0) :
      cur \in {0, 5}, tgt \in {0, 3, 6}, sched \in Schedules }

\* the set of the dates of a frame's index
Dates(site_data) == {DateOf(site_data[i].ts) : i \in 1 .. Len(site_data)}

InitYear ==
  /\ \E demand \in DemandSeries, limit \in LimitSeries,
        target \in {<<>>} \cup {<<SeriesFrame(r, "carbon")>> : r \in RankingSeries},
        bat \in YearBatteries, out \in MaxOutputs :
       year_in =
         [site_data |-> optimizer_selector(SeriesFrame(demand, "site_energy"),
                                           target),
          temp_ev |-> EV("EV_1", bat),
          max_charger_output |-> out,
          max_import_demand |-> SeriesFrame(limit, "peak_import")]
  /\ dates_left = Dates(year_in.site_data)
  /\ temp_date = -1
  /\ new_frames = <<>>
  /\ day_dataf = <<>>
  /\ day_pc = "for"
  /\ charger_load_profile = <<>>
  /\ charged = <<>>
  /\ battery = <<>> /\ constructed = <<>> /\ clock = 0 /\ last = <<>>
  /\ RunOff

\* for temp_date in set(site_data.index.date): the dates in any order
NextDate ==
  /\ day_pc = "for"
  /\ \E d \in dates_left :
       /\ temp_date' = d
       /\ dates_left' = dates_left \ {d}
       /\ day_dataf' = get_single_day_data(d, year_in.site_data)
  /\ day_pc' = "combine_load_profile"
  /\ UNCHANGED <<year_in, new_frames, charger_load_profile, charged, battery_vars,
                 run_vars>>

CombineLoadProfile ==
  /\ day_pc = "combine_load_profile"
  /\ day_dataf' = combine_load_profile(day_dataf, year_in.temp_ev,
                    get_single_day_data(temp_date, year_in.max_import_demand),
                    year_in.max_charger_output)
  /\ day_pc' = "cumsum_energy_consumed"
  /\ UNCHANGED <<year_in, dates_left, temp_date, new_frames,
                 charger_load_profile, charged, battery_vars,
                 run_vars>>

CumsumEnergyConsumed ==
  /\ day_pc = "cumsum_energy_consumed"
  /\ \E tie \in TieOrders : day_dataf' = cumsum_energy_consumed(day_dataf, tie)
  /\ day_pc' = "apply_new_charging_profile"
  /\ UNCHANGED <<year_in, dates_left, temp_date, new_frames,
                 charger_load_profile, charged, battery_vars,
                 run_vars>>

\* the last stage of the pipeline, and new_frames.append(day_dataf)
ApplyNewChargingProfile ==
  /\ day_pc = "apply_new_charging_profile"
  /\ day_dataf' = apply_new_charging_profile(day_dataf,
                    requested_energy(year_in.temp_ev.battery))
  /\ new_frames' = Append(new_frames, day_dataf')
  /\ day_pc' = "for"
  /\ UNCHANGED <<year_in, dates_left, temp_date, charger_load_profile,
                 charged, battery_vars,
                 run_vars>>

\* charger_load_profile = pd.concat(new_frames).sort_index()
ConcatSortIndex ==
  /\ day_pc = "for" /\ dates_left = {}
  /\ charger_load_profile' = sort_index(concat(new_frames))
  /\ day_pc' = "done"
  /\ UNCHANGED <<year_in, dates_left, temp_date, new_frames, day_dataf,
                 charged, battery_vars,
                 run_vars>>

NextYear ==
  \/ NextDate \/ CombineLoadProfile \/ CumsumEnergyConsumed
  \/ ApplyNewChargingProfile \/ ConcatSortIndex

SpecYear == InitYear /\ [][NextYear]_vars

----------------------------------------------------------------------------
(* SpecScenario: one vehicle on a charger of its own through one pass of    *)
(* run_optimizer's loop: the year profile, a stage of the day pipeline at a *)
(* time, then the charger's charging_profile with that profile. The inputs  *)
(* are those of the three scenarios the optimizer is described by. A day of *)
(* the model has the hours of DayHours; the vehicle's window is a range of  *)
(* its slots.                                                               *)

\* an import limit that never binds, as power
UnboundLimit == 100 * Scale
\* scenario A: capacity 60 kWh, current SOC 0.5, target SOC 0.65, no losses,
\* plugged Monday to Friday, a 7 kW charger, the base strategy; the window
\* opens at the first or at the second slot of the day
ScenarioBattery(arrival) ==
  Battery(30 * Scale, 39 * Scale, 60 * Scale,
          Schedule(arrival, SlotsPerDay - 1, <<>>), 0)
ScenarioCharger == 7 * Scale
ScenarioA ==
  { [scenario |-> "A",
     site_data |-> optimizer_selector(
                     SeriesFrame([t \in Timesteps |-> 2], "site_energy"), <<>>),
     temp_ev |-> EV("EV_1", ScenarioBattery(arrival)),
     max_charger_output |-> ScenarioCharger,
     max_import_demand |->
       SeriesFrame([t \in Timesteps |-> UnboundLimit], "peak_import")] :
    arrival \in {0, 1} }

\* scenario B: two plugged days, on the first the import limit is the site's
\* own demand at every timestep, on the second it leaves headroom
ScenarioB ==
  { [scenario |-> "B",
     site_data |-> optimizer_selector(SeriesFrame(demand, "site_energy"),
                                      target),
     temp_ev |-> EV("EV_1", bat),
     max_charger_output |-> out,
     max_import_demand |->
       SeriesFrame([t \in Timesteps |->
                      IF DateOf(t) = 0 THEN ToPower(demand[t])
                      ELSE ToPower(demand[t]) + room], "peak_import")] :
    demand \in DemandSeries,
    target \in {<<>>} \cup {<<SeriesFrame(r, "carbon")>> : r \in RankingSeries},
    room \in {4, UnboundLimit},
    bat \in { Battery(0, 3, 6, Schedule(0, SlotsPerDay - 1, <<{4, 5}>>), 0),
              Battery(0, 6, 6, Schedule(1, 2, <<{4, 5}>>), 0),
              Battery(30 * Scale, 39 * Scale, 60 * Scale,
                      Schedule(0, SlotsPerDay - 1, <<{4, 5}>>), 0) },
    out \in {4, ScenarioCharger} }

\* scenario C: the emission strategy with a carbon series in which the slots
\* of one hour of the day are below every other slot
LowHourSeries ==
  { [t \in Timesteps |->
       IF HourOf(t) = h THEN low[(TimeOf(t) % SlotsPerHour) + 1]
       ELSE high[(TimeOf(t) % SlotsPerHour) + 1]] :
    h \in {DayHours[i] : i \in 1 .. Len(DayHours)},
    low \in {<<1, 1>>, <<2, 1>>}, high \in {<<5, 5>>, <<5, 3>>} }
ScenarioC ==
  { [scenario |-> "C",
     site_data |-> optimizer_selector(SeriesFrame(demand, "site_energy"),
                                      <<SeriesFrame(carbon, "carbon")>>),
     temp_ev |-> EV("EV_1", Battery(0, tgt, 6, sched, 0)),
     max_charger_output |-> out,
     max_import_demand |-> SeriesFrame(limit, "peak_import")] :
    demand \in DemandSeries, carbon \in LowHourSeries, limit \in LimitSeries,
    tgt \in {3, 6}, sched \in Schedules, out \in MaxOutputs }

\* the PV strategy: site_dataf_creator calls optimizer_selector with pv_dataf
\* as the target frame and as the electricity demand
ScenarioPVSeries ==
  { [t \in Timesteps |-> IF TimeOf(t) \in {1, 2} THEN 2 ELSE 0],
    [t \in Timesteps |-> (TimeOf(t) + DateOf(t)) % 3] }
ScenarioPV ==
  { [scenario |-> "PV",
     site_data |-> optimizer_selector(SeriesFrame(pv, "pv"),
                                      <<SeriesFrame(pv, "pv")>>),
     temp_ev |-> EV("EV_1", Battery(0, tgt, 6, sched, 0)),
     max_charger_output |-> out,
     max_import_demand |-> SeriesFrame(limit, "peak_import")] :
    pv \in ScenarioPVSeries,
    limit \in {[t \in Timesteps |-> UnboundLimit], [t \in Timesteps |-> 6]},
    tgt \in {1, 3}, sched \in Schedules, out \in MaxOutputs }

InitScenario ==
  /\ year_in \in ScenarioA \cup ScenarioB \cup ScenarioC \cup ScenarioPV
  /\ dates_left = Dates(year_in.site_data)
  /\ temp_date = -1
  /\ new_frames = <<>>
  /\ day_dataf = <<>>
  /\ day_pc = "for"
  /\ charger_load_profile = <<>>
  /\ charged = <<>>
  /\ battery = <<>> /\ constructed = <<>> /\ clock = 0 /\ last = <<>>
  /\ RunOff

\* sim_charger.charging_profile(charger_load_profile.index,
\* charger_load_profile[CHARGER_LOAD_PROFILE].values), the charger holding
\* temp_ev alone
ChargeVehicle ==
  /\ day_pc = "done"
  /\ \E run \in {Charger_charging_profile(
                   Charger("Charger_1", year_in.max_charger_output,
                           <<year_in.temp_ev>>),
                   Labels(charger_load_profile),
                   <<[i \in 1 .. Len(charger_load_profile) |->
                        charger_load_profile[i].charger_load_profile]>>)} :
       charged' = [sim_charger |-> run[1],
                   total_charger_output |-> run[2],
                   dispatched_energy |-> run[3][1]]
  /\ day_pc' = "charged"
  /\ UNCHANGED <<year_in, dates_left, temp_date, new_frames, day_dataf,
                 charger_load_profile, battery_vars, run_vars>>

NextScenario ==
  \/ NextDate \/ CombineLoadProfile \/ CumsumEnergyConsumed
  \/ ApplyNewChargingProfile \/ ConcatSortIndex \/ ChargeVehicle

SpecScenario == InitScenario /\ [][NextScenario]_vars

----------------------------------------------------------------------------
(* Spec: Optimized_Sites.run_all_control_methods, a statement of            *)
(* run_control_method or a vehicle of run_optimizer at a time. Objects live *)
(* in heap and are known by reference, so that a copy and an alias differ.  *)

\* the heap h with the object v at reference ref
Put(h, ref, v) == [r \in DOMAIN h \cup {ref} |-> IF r = ref THEN v ELSE h[r]]

\* a copy that is the object it was asked to copy
Deepcopy_Alias(src, fresh) == src

\* copy.deepcopy(src): the reference of a new object; the caller stores the
\* value of src at it
Deepcopy(src, fresh) == fresh

\* SiteScheduleOptimzer, in the order run_all_control_methods goes through
Controls ==
  <<"BASE_OPTIMIZER", "EMISSION_OPTIMIZER", "PRICE_OPTIMIZER", "PV_OPTIMIZER">>
\* the local of run_all_control_methods' result and its key of the mapping
LabelOf(control_type) ==
  CASE control_type = "BASE_OPTIMIZER" -> "Basic"
    [] control_type = "EMISSION_OPTIMIZER" -> "Emission"
    [] control_type = "PRICE_OPTIMIZER" -> "Price"
    [] control_type = "PV_OPTIMIZER" -> "PV"

\* the field of self a strategy ranks by: <<>> (None) or <<reference>>
TargetOf(control_type) ==
  CASE control_type = "BASE_OPTIMIZER" -> <<>>
    [] control_type = "EMISSION_OPTIMIZER" -> self.carbon_dataf
    [] control_type = "PRICE_OPTIMIZER" -> self.price_dataf
    [] control_type = "PV_OPTIMIZER" -> self.pv_dataf

\* a skip test that lets one missing series stop every ranked strategy
IsMissing_AnyMissing(control_type) ==
  /\ control_type # "BASE_OPTIMIZER"
  /\ <<>> \in {self.carbon_dataf, self.price_dataf, self.pv_dataf}

\* the condition of run_control_method's if
IsMissing(control_type) ==
  \/ (self.carbon_dataf = <<>> /\ control_type = "EMISSION_OPTIMIZER")
  \/ (self.price_dataf = <<>> /\ control_type = "PRICE_OPTIMIZER")
  \/ (self.pv_dataf = <<>> /\ control_type = "PV_OPTIMIZER")

\* the frame site_dataf_creator returns, read from the heap h
site_dataf_creator(h, control_type) ==
  CASE control_type = "BASE_OPTIMIZER" ->
         optimizer_selector(h[self.site_electricity_demand], <<>>)
    [] control_type = "EMISSION_OPTIMIZER" ->
         optimizer_selector(h[self.site_electricity_demand],
                            <<h[self.carbon_dataf[1]]>>)
    [] control_type = "PRICE_OPTIMIZER" ->
         optimizer_selector(h[self.site_electricity_demand],
                            <<h[self.price_dataf[1]]>>)
    [] control_type = "PV_OPTIMIZER" ->
         optimizer_selector(h[self.pv_dataf[1]], <<h[self.pv_dataf[1]]>>)

\* target_dataf.columns = [OPTIMIZER_TARGET]: create_dataf_for_control renames
\* the column of the frame it was given, in place
RenamedTarget(target_dataf) ==
  [i \in 1 .. Len(target_dataf) |->
     [ts |-> target_dataf[i].ts,
      target |-> target_dataf[i][CHOOSE k \in DOMAIN target_dataf[i] : k # "ts"]]]

\* Ev_System.get_recorded_data_from_chargers: the sum over the chargers'
\* recorder columns, recorded as the site's ENERGY_INPUT
RECURSIVE SumChargers(_, _, _)
SumChargers(chargers, k, t) ==
  IF k = 0 THEN 0
  ELSE chargers[k].data_recorder["ENERGY_INPUT"][t] + SumChargers(chargers, k - 1, t)

get_recorded_data_from_chargers(recorder, chargers) ==
  LET index == [t \in Timesteps |-> t]
  IN record_batch_data(recorder, index,
       [t \in Timesteps |-> SumChargers(chargers, Len(chargers), t)], 1,
       "ENERGY_INPUT")

\* the orders of equal-target rows the runner is checked with: positions kept,
\* positions reversed
RunTieOrders ==
  { [i \in 1 .. SlotsPerDay |-> i], [i \in 1 .. SlotsPerDay |-> SlotsPerDay + 1 - i] }

RunBatterySize == 6
RunBatteries ==
  { Battery(0, 3, RunBatterySize, Schedule(0, SlotsPerDay - 1, <<{4, 5}>>), 0),
    Battery(1, 6, RunBatterySize, Schedule(1, 2, <<>>), 0) }
\* charger maps: one charger with one vehicle, two chargers with one vehicle
\* each, one charger with two vehicles
Fleets ==
  LET one(name, out, evs) == Charger(name, out, evs)
  IN UNION { { <<one("Charger_1", out, <<EV("EV_1", b1)>>)>> : b1 \in RunBatteries }
             \cup { <<one("Charger_1", out, <<EV("EV_1", b1)>>),
                      one("Charger_2", out, <<EV("EV_2", b2)>>)>> :
                    b1 \in RunBatteries, b2 \in RunBatteries }
             \cup { <<one("Charger_1", out, <<EV("EV_1", b1), EV("EV_2", b2)>>)>> :
                    b1 \in RunBatteries, b2 \in RunBatteries }
             : out \in MaxOutputs }
PriceSeries == { [t \in Timesteps |-> TimeOf(t) % 2] }
PVSeries == { [t \in Timesteps |-> IF TimeOf(t) \in {1, 2} THEN 2 ELSE 0] }

\* an optional series as an optional reference
Optional(series, ref) == IF series = <<>> THEN <<>> ELSE <<ref>>

Init ==
  /\ \E fleet \in Fleets, demand \in DemandSeries, limit \in LimitSeries,
        carbon \in {<<>>} \cup {<<r>> : r \in RankingSeries},
        price \in {<<>>} \cup {<<r>> : r \in PriceSeries},
        pv \in {<<>>} \cup {<<r>> : r \in PVSeries} :
       LET r_chargers == <<"self", "dict_of_chargers">>
           r_recorder == <<"self", "site_data_recorder">>
           r_demand == <<"self", "site_electricity_demand">>
           r_limit == <<"self", "max_import_demand">>
           r_carbon == <<"self", "carbon_dataf">>
           r_price == <<"self", "price_dataf">>
           r_pv == <<"self", "pv_dataf">>
           h0 == Put(Put(Put(Put(<<>>, r_chargers, fleet),
                             r_recorder, TimeserieRecorder({"ENERGY_INPUT"})),
                         r_demand, SeriesFrame(demand, "site_energy")),
                     r_limit, SeriesFrame(limit, "peak_import"))
           h1 == IF carbon = <<>> THEN h0
                 ELSE Put(h0, r_carbon, SeriesFrame(carbon[1], "carbon"))
           h2 == IF price = <<>> THEN h1
                 ELSE Put(h1, r_price, SeriesFrame(price[1], "price"))
           h3 == IF pv = <<>> THEN h2
                 ELSE Put(h2, r_pv, SeriesFrame(pv[1], "pv"))
       IN /\ self = [dict_of_chargers |-> r_chargers,
                     site_data_recorder |-> r_recorder,
                     site_electricity_demand |-> r_demand,
                     max_import_demand |-> r_limit,
                     carbon_dataf |-> Optional(carbon, r_carbon),
                     price_dataf |-> Optional(price, r_price),
                     pv_dataf |-> Optional(pv, r_pv)]
          /\ heap = h3
          /\ original = [r \in {r_chargers, r_recorder, r_demand} |-> h3[r]]
  /\ control_idx = 1
  /\ run_pc = "run_control_method"
  /\ copy_chargers = <<>> /\ site_df = <<>> /\ results_df = <<>>
  /\ ci = 0 /\ ei = 0 /\ drawn = <<>> /\ sites = <<>> /\ returned = <<>>
  /\ battery = <<>> /\ constructed = <<>> /\ clock = 0 /\ last = <<>>
  /\ year_in = <<>> /\ dates_left = {} /\ temp_date = -1 /\ new_frames = <<>>
  /\ day_dataf = <<>> /\ day_pc = "off" /\ charger_load_profile = <<>>
  /\ charged = <<>>

\* run_control_method, the branch of the if: the strategy's series is missing,
\* the method prints and returns None
SkipControlMethod ==
  /\ run_pc = "run_control_method" /\ control_idx \in 1 .. Len(Controls)
  /\ IsMissing(Controls[control_idx])
  /\ sites' = Put(sites, Controls[control_idx], <<>>)
  /\ control_idx' = control_idx + 1
  /\ UNCHANGED <<self, heap, original, run_pc, copy_chargers, site_df,
                 results_df, ci, ei, drawn, returned, battery_vars, year_vars>>

\* run_control_method, the else branch up to the entry of run_optimizer:
\* copy_chargers = deepcopy(self.dict_of_chargers), site_dataf =
\* self.site_dataf_creator(control_type), results_df = site_df.copy()
BeginControlMethod ==
  /\ run_pc = "run_control_method" /\ control_idx \in 1 .. Len(Controls)
  /\ ~IsMissing(Controls[control_idx])
  /\ LET control_type == Controls[control_idx]
         cc == Deepcopy(self.dict_of_chargers, <<control_type, "copy_chargers">>)
         h1 == Put(heap, cc, heap[self.dict_of_chargers])
         frame == site_dataf_creator(h1, control_type)
         target == TargetOf(control_type)
         h2 == IF target = <<>> THEN h1
               ELSE Put(h1, target[1], RenamedTarget(h1[target[1]]))
         sd == <<control_type, "site_dataf">>
     IN /\ heap' = Put(h2, sd, frame)
        /\ copy_chargers' = cc
        /\ site_df' = sd
        /\ results_df' = frame
        /\ drawn' = [c \in 1 .. Len(h1[cc]) |->
                       [e \in 1 .. Len(h1[cc][c].ev_list) |->
                          [t \in Timesteps |-> 0]]]
  /\ ci' = 1 /\ ei' = 1
  /\ run_pc' = "run_optimizer"
  /\ UNCHANGED <<self, original, control_idx, sites, returned, battery_vars,
                 year_vars>>

\* run_optimizer, one pass of the inner loop: the year profile of temp_ev, the
\* charger's charging_profile with it, the charger's recorded energy added
\* to the site energy
OptimizeVehicle ==
  /\ run_pc = "run_optimizer"
  /\ ci <= Len(heap[copy_chargers])
  /\ ei <= Len(heap[copy_chargers][ci].ev_list)
  /\ \E tie \in RunTieOrders :
     \E profile \in {get_charging_profile_for_year(heap[site_df],
                        heap[copy_chargers][ci].ev_list[ei],
                        heap[copy_chargers][ci].max_output,
                        heap[self.max_import_demand], tie)} :
     \E run \in {Charger_charging_profile(heap[copy_chargers][ci],
                    Labels(profile),
                    <<[i \in 1 .. Len(profile) |->
                         profile[i].charger_load_profile]>>)} :
       LET dict_chargers == heap[copy_chargers]
           sim_charger == dict_chargers[ci]
           charger_energy_demand == ColumnValues(run[1].data_recorder,
                                                 "ENERGY_INPUT")
           site == heap[site_df]
           site1 == [i \in 1 .. Len(site) |->
                       SetCol(site[i], "site_energy",
                              site[i].site_energy + charger_energy_demand[i])]
       IN /\ heap' = Put(Put(heap, copy_chargers,
                             [dict_chargers EXCEPT ![ci] = run[1]]),
                         site_df, site1)
          /\ drawn' = [drawn EXCEPT ![ci] =
                         [e \in 1 .. Len(sim_charger.ev_list) |->
                            [t \in Timesteps |->
                               run[3][e][CHOOSE i \in 1 .. Len(profile) :
                                           profile[i].ts = t]]]]
  /\ ei' = ei + 1
  /\ UNCHANGED <<self, original, control_idx, run_pc, copy_chargers, site_df,
                 results_df, ci, sites, returned, battery_vars, year_vars>>

\* run_optimizer, the end of a pass of the outer loop:
\* results_df[sim_charger.name] = the charger's recorded ENERGY_INPUT
FinishCharger ==
  /\ run_pc = "run_optimizer"
  /\ ci <= Len(heap[copy_chargers])
  /\ ei > Len(heap[copy_chargers][ci].ev_list)
  /\ LET sim_charger == heap[copy_chargers][ci]
         recorded == ColumnValues(sim_charger.data_recorder, "ENERGY_INPUT")
     IN results_df' = [i \in 1 .. Len(results_df) |->
                         SetCol(results_df[i], sim_charger.name, recorded[i])]
  /\ ci' = ci + 1 /\ ei' = 1
  /\ UNCHANGED <<self, heap, original, control_idx, run_pc, copy_chargers,
                 site_df, drawn, sites, returned, battery_vars, year_vars>>

\* run_optimizer returns; generate_controlled_site builds the Ev_System on a
\* deepcopy of the site recorder, its __post_init__ and site_charging_profiles
\* record the chargers' energy; run_control_method returns gen_site
GenerateControlledSite ==
  /\ run_pc = "run_optimizer"
  /\ ci > Len(heap[copy_chargers])
  /\ LET control_type == Controls[control_idx]
         rec == Deepcopy(self.site_data_recorder, <<control_type, "data_recorder">>)
         h1 == Put(heap, rec, heap[self.site_data_recorder])
         gen_site == [name |-> <<control_type, "_SITE">>,
                      data_recorder |-> rec,
                      dict_site_assets |-> copy_chargers]
     IN /\ heap' = Put(h1, rec,
                       get_recorded_data_from_chargers(h1[rec],
                                                       h1[copy_chargers]))
        /\ sites' = Put(sites, control_type, <<gen_site>>)
  /\ control_idx' = control_idx + 1
  /\ run_pc' = "run_control_method"
  /\ UNCHANGED <<self, original, copy_chargers, site_df, results_df, ci, ei,
                 drawn, returned, battery_vars, year_vars>>

\* the return statement of run_all_control_methods
ReturnAll ==
  /\ run_pc = "run_control_method" /\ control_idx > Len(Controls)
  /\ returned' = <<[Basic |-> sites["BASE_OPTIMIZER"],
                    Emission |-> sites["EMISSION_OPTIMIZER"],
                    Price |-> sites["PRICE_OPTIMIZER"],
                    PV |-> sites["PV_OPTIMIZER"]]>>
  /\ run_pc' = "returned"
  /\ UNCHANGED <<self, heap, original, control_idx, copy_chargers, site_df,
                 results_df, ci, ei, drawn, sites, battery_vars, year_vars>>

Next ==
  \/ SkipControlMethod \/ BeginControlMethod \/ OptimizeVehicle
  \/ FinishCharger \/ GenerateControlledSite \/ ReturnAll

Spec == Init /\ [][Next]_vars

----------------------------------------------------------------------------
(* Claims about the strategy runner, checked under Spec *)

\* run_optimizer has processed every charger and every vehicle of the strategy
OptimizerDone == run_pc = "run_optimizer" /\ ci > Len(heap[copy_chargers])

\* the energy all vehicles of all chargers drew at timestep t
RECURSIVE SumDrawn(_, _, _)
SumDrawn(c, e, t) ==
  IF c = 0 THEN 0
  ELSE IF e = 0 THEN SumDrawn(c - 1, IF c = 1 THEN 0 ELSE Len(drawn[c - 1]), t)
  ELSE drawn[c][e][t] + SumDrawn(c, e - 1, t)
TotalDrawn(t) == SumDrawn(Len(drawn), Len(drawn[Len(drawn)]), t)

\* the site energy run_optimizer was entered with (results_df is its copy)
\* and the import limit, at timestep t
OriginalSiteEnergy(t) == RowAt(results_df, t).site_energy
ImportLimit(t) == RowAt(heap[self.max_import_demand], t).peak_import

\* C1: after run_optimizer has processed every charger and every vehicle of a
\* strategy, at every timestep where the original site demand alone was
\* within the import limit, the original site demand plus the energy the
\* vehicles' batteries consumed, as power, is within the import limit.
C1_SiteImportWithinLimit ==
  OptimizerDone =>
    \A t \in Timesteps :
      ToPower(OriginalSiteEnergy(t)) <= ImportLimit(t)
        => ToPower(OriginalSiteEnergy(t) + TotalDrawn(t)) <= ImportLimit(t)

\* the objects of self a strategy must leave alone are as the run found them
SelfUnchanged == \A r \in DOMAIN original : heap[r] = original[r]

\* C8: running a strategy leaves the run's original charger map (batteries and
\* recorders of every vehicle and charger), its site recorder and its site
\* demand series as they were, at every point of every strategy, so every
\* strategy starts from the same charger map, recorder and demand.
C8_OriginalsUnchanged == run_pc # "off" => SelfUnchanged

\* two strategies have run, each changed the vehicles and the recorder it
\* worked on, and these are not the originals
C8_Witness ==
  /\ run_pc = "returned"
  /\ returned[1].Basic # <<>> /\ returned[1].Emission # <<>>
  /\ \A l \in {"Basic", "Emission"} :
       LET site == returned[1][l][1]
       IN /\ heap[site.dict_site_assets] # original[self.dict_of_chargers]
          /\ heap[site.data_recorder] # original[self.site_data_recorder]
          /\ site.dict_site_assets # self.dict_of_chargers
  /\ SelfUnchanged

\* C9: run_all_control_methods returns a mapping with exactly the labels
\* Basic, Emission, Price and PV; the value of Emission, Price, PV is None
\* exactly when the carbon, price, PV series was not supplied, the value of
\* Basic is never None, and every value that is not None is the system of a
\* strategy that was executed whatever the other series were.
C9_FourLabelsNoneIffMissing ==
  run_pc = "returned" =>
    LET m == returned[1]
        executed(v) == /\ v # <<>>
                       /\ v[1].dict_site_assets \in DOMAIN heap
                       /\ v[1].data_recorder \in DOMAIN heap
    IN /\ DOMAIN m = {"Basic", "Emission", "Price", "PV"}
       /\ executed(m.Basic)
       /\ (m.Emission = <<>>) <=> (self.carbon_dataf = <<>>)
       /\ (m.Price = <<>>) <=> (self.price_dataf = <<>>)
       /\ (m.PV = <<>>) <=> (self.pv_dataf = <<>>)
       /\ \A l \in DOMAIN m : m[l] # <<>> => executed(m[l])

\* the carbon series is missing and the strategies after Emission still ran
C9_Witness ==
  /\ run_pc = "returned"
  /\ self.carbon_dataf = <<>> /\ self.price_dataf # <<>> /\ self.pv_dataf # <<>>
  /\ returned[1].Emission = <<>>
  /\ returned[1].Basic # <<>> /\ returned[1].Price # <<>> /\ returned[1].PV # <<>>

\* the energy the first e vehicles of a charger drew at timestep t in the pass
\* recorded in d (a value of drawn for that charger)
RECURSIVE PassDrawn(_, _, _)
PassDrawn(d, e, t) == IF e = 0 THEN 0 ELSE d[e][t] + PassDrawn(d, e - 1, t)

\* C17: in every pass of run_optimizer's inner loop the running site energy
\* grows, at each timestep, by exactly the energy the vehicles' batteries
\* consumed in that pass, so that the running total is the original site
\* demand plus the realized draw so far, each draw counted once.
C17_RunningTotalFoldsRealizedDraw ==
  [][(run_pc = "run_optimizer" /\ ci' = ci /\ ei' = ei + 1) =>
       \A t \in Timesteps :
         RowAt(heap'[site_df], t).site_energy =
           RowAt(heap[site_df], t).site_energy
             + PassDrawn(drawn'[ci], Len(drawn'[ci]), t)]_vars

\* the value at timestep t of the one column of a series frame
SeriesValueAt(dataf, t) ==
  LET r == RowAt(dataf, t) IN r[CHOOSE k \in DOMAIN r : k # "ts"]
\* the value a strategy ranks timestep t by: the hour for the base strategy,
\* the strategy's series for the others
RankingValueAt(control_type, t) ==
  IF control_type = "BASE_OPTIMIZER" THEN HourOf(t)
  ELSE SeriesValueAt(heap[TargetOf(control_type)[1]], t)

\* C22: for every executed strategy the existing-load column the optimizer
\* computes headroom from (the site energy run_optimizer is entered with) is
\* the run's site electricity demand series, and the ranking column is the
\* strategy's own.
C22_ExistingLoadIsSiteDemand ==
  run_pc = "run_optimizer" =>
    \A t \in Timesteps :
      /\ OriginalSiteEnergy(t) =
           RowAt(heap[self.site_electricity_demand], t).site_energy
      /\ RowAt(results_df, t).target = RankingValueAt(Controls[control_idx], t)

\* C26: in one strategy run each vehicle's battery is stepped through the
\* timesteps of the year exactly once, and the series left in a vehicle's
\* recorder are the ones produced with the profile optimized for that
\* vehicle, also when a charger holds several vehicles: the pass of
\* run_optimizer's inner loop that plans for vehicle ei of a charger leaves
\* the battery and the recorder of every other vehicle of that charger as
\* they were.
C26_PassStepsItsVehicleOnly ==
  [][(run_pc = "run_optimizer" /\ ci' = ci /\ ei' = ei + 1) =>
       \A e \in 1 .. Len(heap[copy_chargers][ci].ev_list) :
         e # ei => heap'[copy_chargers][ci].ev_list[e]
                     = heap[copy_chargers][ci].ev_list[e]]_vars

\* C27: at every timestep the aggregate power a charger delivers to its
\* vehicles is at most the charger's max_output, for any number of vehicles
\* on the charger; here under the schedules run_optimizer supplies, whose
\* values are each at most max_output.
C27_ChargerOutputWithinMax ==
  run_pc = "run_optimizer" =>
    \A c \in 1 .. Len(drawn) : \A t \in Timesteps :
      ToPower(PassDrawn(drawn[c], Len(drawn[c]), t))
        <= heap[copy_chargers][c].max_output

----------------------------------------------------------------------------
(* Claims about the daily optimizer and the year loop, checked under SpecYear *)

StrictlyIncreasing(xs) == \A i \in 1 .. Len(xs) - 1 : xs[i] < xs[i + 1]

\* a day's profile has been computed: day_dataf is the profile of temp_date
DayDone == day_pc \in {"for", "done"} /\ new_frames # <<>>
\* the day of the site frame and of the import limit that profile was made from
DayInput == get_single_day_data(temp_date, year_in.site_data)
DayLimit == get_single_day_data(temp_date, year_in.max_import_demand)
\* the availability (headroom) of each slot of that day, rows in input order
DayHeadroom ==
  combine_load_profile(DayInput, year_in.temp_ev, DayLimit,
                       year_in.max_charger_output)
\* the requested energy the day was planned with
DayRequested == requested_energy(year_in.temp_ev.battery)
\* the energy the day's profile allocates
DayAllocatedEnergy ==
  SumTo([i \in 1 .. Len(day_dataf) |->
           ToEnergy(day_dataf[i].charger_load_profile)], Len(day_dataf))

\* C2: the day profile never allocates to a timestep more than its headroom:
\* where the existing load is within the import limit, existing load plus
\* allocated power is at most the limit, and the allocated power is at most
\* the charger's max output.
C2_DayProfileWithinHeadroom ==
  DayDone =>
    \A i \in 1 .. Len(day_dataf) :
      LET ts == day_dataf[i].ts
          load == ToPower(RowAt(DayInput, ts).site_energy)
          limit == RowAt(DayLimit, ts).peak_import
          alloc == day_dataf[i].charger_load_profile
      IN /\ alloc <= year_in.max_charger_output
         /\ (load <= limit => load + alloc <= limit)

\* a slot with existing load where the import limit, not the charger, binds
\* and the allocation fills it
C2_Witness ==
  /\ DayDone
  /\ \E i \in 1 .. Len(day_dataf) :
       LET ts == day_dataf[i].ts
           load == ToPower(RowAt(DayInput, ts).site_energy)
           limit == RowAt(DayLimit, ts).peak_import
           alloc == day_dataf[i].charger_load_profile
       IN load > 0 /\ alloc > 0 /\ load + alloc = limit
          /\ alloc < year_in.max_charger_output

\* C3: the energy allocated over the day (power times the sampling interval,
\* summed over the day's timesteps) never exceeds the battery's
\* requested_energy, for every headroom profile and every ranking.
C3_DayEnergyWithinRequested == DayDone => DayAllocatedEnergy <= DayRequested

\* a day that delivers exactly a positive requirement, with a slot clipped
\* below its headroom and a slot given all of it
C3_Witness ==
  /\ DayDone /\ DayRequested > 0 /\ DayAllocatedEnergy = DayRequested
  /\ \E i, j \in 1 .. Len(day_dataf) :
       /\ 0 < day_dataf[i].charger_load_profile
       /\ day_dataf[i].charger_load_profile <
            RowAt(DayHeadroom, day_dataf[i].ts).charger_load_profile
       /\ 0 < day_dataf[j].charger_load_profile
       /\ day_dataf[j].charger_load_profile =
            RowAt(DayHeadroom, day_dataf[j].ts).charger_load_profile

\* C7: when requested_energy is zero or negative, the day's profile is zero at
\* every timestep, whatever the headroom and the ranking.
C7_ZeroProfileWhenNothingRequested ==
  (DayDone /\ DayRequested <= 0) =>
    \A i \in 1 .. Len(day_dataf) : day_dataf[i].charger_load_profile = 0

\* C10: a day's profile has exactly the timestamps of the input day, each once
\* and in chronological order; the year profile has exactly the timestamps of
\* the site series, each once and in chronological order.
C10_ChronologicalIndex ==
  /\ DayDone =>
       /\ StrictlyIncreasing(Labels(day_dataf))
       /\ Len(day_dataf) = Len(DayInput)
       /\ {day_dataf[i].ts : i \in 1 .. Len(day_dataf)} =
            {DayInput[i].ts : i \in 1 .. Len(DayInput)}
  /\ day_pc = "done" =>
       /\ StrictlyIncreasing(Labels(charger_load_profile))
       /\ Len(charger_load_profile) = Len(year_in.site_data)
       /\ {charger_load_profile[i].ts : i \in 1 .. Len(charger_load_profile)} =
            {year_in.site_data[i].ts : i \in 1 .. Len(year_in.site_data)}

\* a finished year whose days were visited latest first, and in which a slot
\* later in its day was ranked before, and filled instead of, an earlier one
C10_Witness ==
  /\ day_pc = "done"
  /\ Len(new_frames) >= 2
  /\ new_frames[1][1].ts > new_frames[2][1].ts
  /\ \E i, j \in 1 .. Len(day_dataf) :
       /\ i < j
       /\ day_dataf[i].charger_load_profile = 0
       /\ RowAt(DayHeadroom, day_dataf[i].ts).charger_load_profile > 0
       /\ day_dataf[j].charger_load_profile > 0

\* the day profiles a date can have: one for each order sort_values may leave
\* the rows of equal target in, each made from the inputs of the year alone
DayProfilesOf(d) ==
  { get_charging_profile_for_single_day(
      get_single_day_data(d, year_in.site_data), year_in.temp_ev,
      get_single_day_data(d, year_in.max_import_demand),
      year_in.max_charger_output, tie) : tie \in TieOrders }
\* the frames of new_frames for a set of dates, earliest date first
RECURSIVE FramesByDate(_)
FramesByDate(dates) ==
  IF dates = {} THEN <<>>
  ELSE LET d == CHOOSE x \in dates : \A y \in dates : x <= y
           k == CHOOSE j \in 1 .. Len(new_frames) :
                  DateOf(new_frames[j][1].ts) = d
       IN <<new_frames[k]>> \o FramesByDate(dates \ {d})

\* C11: the year profile of a vehicle is the same whatever the order the days
\* were visited in: every day's profile is one the inputs of the year
\* determine for that date (up to the order of equal-target rows), and the
\* year profile is the day profiles put end to end by date.
C11_YearProfileIndependentOfVisitOrder ==
  day_pc = "done" =>
    /\ \A k \in 1 .. Len(new_frames) :
         new_frames[k] \in DayProfilesOf(DateOf(new_frames[k][1].ts))
    /\ charger_load_profile = concat(FramesByDate(Dates(year_in.site_data)))

\* a finished year whose days were visited latest first and whose two days
\* have different, non-zero profiles
C11_Witness ==
  /\ day_pc = "done"
  /\ Len(new_frames) >= 2
  /\ DateOf(new_frames[1][1].ts) > DateOf(new_frames[2][1].ts)
  /\ \E i \in 1 .. Len(new_frames[1]) :
       /\ new_frames[1][i].charger_load_profile > 0
       /\ new_frames[1][i].charger_load_profile #
            new_frames[2][i].charger_load_profile

\* C20: the slots of a day that have equal target value are ranked in
\* chronological order, so of two equal-target slots with positive headroom
\* the earlier one is allocated first: the later one has power only when the
\* earlier one has its full headroom.
C20_TiesRankedChronologically ==
  /\ day_pc = "apply_new_charging_profile" =>
       \A a, b \in 1 .. Len(day_dataf) :
         (a < b /\ day_dataf[a].target = day_dataf[b].target)
           => day_dataf[a].ts < day_dataf[b].ts
  /\ (day_pc = "for" /\ new_frames # <<>>) =>
       \A i, j \in 1 .. Len(day_dataf) :
         LET headroom(k) == RowAt(DayHeadroom, day_dataf[k].ts).charger_load_profile
             target(k) == RowAt(DayInput, day_dataf[k].ts).target
         IN (/\ day_dataf[i].ts < day_dataf[j].ts
             /\ target(i) = target(j)
             /\ headroom(i) > 0 /\ headroom(j) > 0
             /\ day_dataf[j].charger_load_profile > 0)
              => day_dataf[i].charger_load_profile = headroom(i)

----------------------------------------------------------------------------
(* Claims about the scenarios, checked under SpecScenario *)

\* the vehicle of scenario x has been charged with its year profile
ScenarioDone(x) == day_pc = "charged" /\ year_in.scenario = x
\* the timesteps of date d, and those of them the vehicle is plugged at
SlotsOf(d) == {t \in Timesteps : DateOf(t) = d}
PluggedSlotsOf(d) ==
  {t \in SlotsOf(d) : is_plugged(year_in.temp_ev.battery.schedule, t)}
\* the first date with a plugged timestep, and the next one after a date
FirstPluggedDay ==
  CHOOSE d \in Dates(year_in.site_data) :
    /\ PluggedSlotsOf(d) # {}
    /\ \A e \in Dates(year_in.site_data) : PluggedSlotsOf(e) # {} => d <= e
\* the power the year profile allocates to timestep t, the energy the battery
\* consumed at t when the charger ran the profile
AllocatedAt(t) == RowAt(charger_load_profile, t).charger_load_profile
DrawnAt(t) ==
  charged.dispatched_energy[CHOOSE i \in 1 .. Len(charger_load_profile) :
                              charger_load_profile[i].ts = t]
\* the sum of f over the timesteps of a set
SumOverSlots(f, slots) ==
  SumTo([t \in Timesteps |-> IF t \in slots THEN f[t] ELSE 0], NSteps)
DrawnOver(slots) == SumOverSlots([t \in Timesteps |-> DrawnAt(t)], slots)
AllocatedEnergyOver(slots) ==
  SumOverSlots([t \in Timesteps |-> ToEnergy(AllocatedAt(t))], slots)

\* C12: in scenario A, on the first plugged day the vehicle draws exactly its
\* requested 9 kWh and with it reaches its target SOC, the day's profile
\* allocates those 9 kWh, nothing is allocated outside the plugged window, and
\* in time order the plugged slots get the full 7 kW, then one partial slot,
\* then zero: a slot gets power only if every earlier plugged slot got 7 kW.
C12_ScenarioA_EarliestSlotsFirst ==
  ScenarioDone("A") =>
    LET d == FirstPluggedDay
        bat == year_in.temp_ev.battery
    IN /\ DrawnOver(SlotsOf(d)) = 9 * Scale
       /\ current_energy_stored(bat) + DrawnOver(SlotsOf(d)) =
            target_energy_stored(bat)
       /\ AllocatedEnergyOver(SlotsOf(d)) = 9 * Scale
       /\ \A t \in SlotsOf(d) \ PluggedSlotsOf(d) : AllocatedAt(t) = 0
       /\ \A i, j \in PluggedSlotsOf(d) :
            (i < j /\ AllocatedAt(j) > 0) => AllocatedAt(i) = ScenarioCharger

\* the import limit and the site's own load at timestep t, as power
LimitAt(t) == RowAt(year_in.max_import_demand, t).peak_import
LoadAt(t) == ToPower(RowAt(year_in.site_data, t).site_energy)
\* a plugged day whose import limit is the site's load at every timestep
ZeroHeadroomDay(d) ==
  /\ PluggedSlotsOf(d) # {}
  /\ \A t \in SlotsOf(d) : LimitAt(t) = LoadAt(t)
\* e is the first plugged day after d
FollowingPluggedDay(d, e) ==
  /\ e \in Dates(year_in.site_data) /\ d < e /\ PluggedSlotsOf(e) # {}
  /\ \A f \in Dates(year_in.site_data) : (d < f /\ f < e) => PluggedSlotsOf(f) = {}
\* the energy the plugged slots of day d have room for
HeadroomEnergyOver(d) ==
  SumOverSlots([t \in Timesteps |->
                  ToEnergy(Max(0, Min(year_in.max_charger_output,
                                      LimitAt(t) - LoadAt(t))))],
               PluggedSlotsOf(d))

\* C13: in scenario B, on a plugged day whose import limit equals the site's
\* demand at every timestep the vehicle is allocated zero power and draws zero
\* energy at every timestep, and on the following plugged day the whole unmet
\* requirement (target energy less stored energy) is requested again: that
\* day is allocated the requirement, or all its headroom if that is less.
C13_ScenarioB_DeficitRequestedAgain ==
  ScenarioDone("B") =>
    \A d \in Dates(year_in.site_data) :
      ZeroHeadroomDay(d) =>
        /\ \A t \in SlotsOf(d) : AllocatedAt(t) = 0 /\ DrawnAt(t) = 0
        /\ \A e \in Dates(year_in.site_data) :
             FollowingPluggedDay(d, e) =>
               AllocatedEnergyOver(SlotsOf(e)) =
                 Min(target_energy_stored(year_in.temp_ev.battery)
                       - current_energy_stored(year_in.temp_ev.battery),
                     HeadroomEnergyOver(e))

\* a day with demand and no headroom, then a plugged day on which the whole
\* requirement is allocated and drawn
C13_Witness ==
  /\ ScenarioDone("B")
  /\ ZeroHeadroomDay(0) /\ FollowingPluggedDay(0, 1)
  /\ \E t \in PluggedSlotsOf(0) : LoadAt(t) > 0
  /\ requested_energy(year_in.temp_ev.battery) > 0
  /\ AllocatedEnergyOver(SlotsOf(1)) = requested_energy(year_in.temp_ev.battery)
  /\ DrawnOver(SlotsOf(1)) = requested_energy(year_in.temp_ev.battery)

\* the ranking value (carbon intensity) of timestep t
TargetAt(t) == RowAt(year_in.site_data, t).target
\* the power timestep t has room for: none where the vehicle is not plugged
HeadroomAt(t) ==
  IF is_plugged(year_in.temp_ev.battery.schedule, t)
    THEN Max(0, Min(year_in.max_charger_output, LimitAt(t) - LoadAt(t)))
    ELSE 0
\* the timesteps of hour h of date d
HourSlotsOf(d, h) == {t \in SlotsOf(d) : HourOf(t) = h}
\* every slot of hour h of date d ranks strictly below every other slot of d,
\* and the hour has a plugged slot with positive headroom
StrictlyLowestHour(d, h) ==
  /\ \A i \in HourSlotsOf(d, h) :
       \A j \in SlotsOf(d) \ HourSlotsOf(d, h) : TargetAt(i) < TargetAt(j)
  /\ \E i \in HourSlotsOf(d, h) : HeadroomAt(i) > 0

\* C14: in scenario C (emission strategy), when one hour of a day has strictly
\* the lowest carbon intensity and positive headroom in a plugged slot, no
\* slot of the day outside that hour receives power unless every slot of that
\* hour received its full headroom, wherever in the day the hour lies.
C14_ScenarioC_LowestHourFirst ==
  (day_pc = "charged" /\ year_in.scenario = "C") =>
    \A d \in Dates(year_in.site_data) :
      \A h \in {DayHours[k] : k \in 1 .. Len(DayHours)} :
        StrictlyLowestHour(d, h) =>
          \A j \in SlotsOf(d) \ HourSlotsOf(d, h) :
            AllocatedAt(j) > 0 =>
              \A i \in HourSlotsOf(d, h) : AllocatedAt(i) = HeadroomAt(i)

\* the lowest hour is the last of the day; its slots are filled, and of the
\* earlier slots with headroom one receives power and one receives none
C14_Witness ==
  /\ day_pc = "charged" /\ year_in.scenario = "C"
  /\ \E d \in Dates(year_in.site_data) :
       LET h == DayHours[Len(DayHours)]
       IN /\ StrictlyLowestHour(d, h)
          /\ \A i \in HourSlotsOf(d, h) :
               HeadroomAt(i) > 0 /\ AllocatedAt(i) = HeadroomAt(i)
          /\ \E j, k \in SlotsOf(d) \ HourSlotsOf(d, h) :
               /\ AllocatedAt(j) > 0
               /\ HeadroomAt(k) > 0 /\ AllocatedAt(k) = 0

\* the weekday of t is a connected weekday of schedule s and the time of day
\* of t is in [arrival_time, departure_time], both ends included
InWindow(s, t) ==
  /\ WeekdayOf(t) \in s.list_days
  /\ s.arrival_time <= TimeOf(t) /\ TimeOf(t) <= s.departure_time
\* combine_load_profile has run on the day of temp_date
DayCombined == day_pc = "cumsum_energy_consumed"
\* the availability of the charger at timestep t of the day (plugged or not)
DayAvailabilityAt(t) ==
  Max(0, Min(year_in.max_charger_output,
             RowAt(DayLimit, t).peak_import
               - ToPower(RowAt(DayInput, t).site_energy)))

\* C15: is_plugged(t) is true exactly when the weekday of t is one of the
\* schedule's connected weekdays and the time of day of t is in
\* [arrival_time, departure_time], ends included; get_plugged_profile holds
\* that value at the position of each timestep, so the load profile
\* combine_load_profile makes with it has the availability at exactly those
\* positions and zero at the others.
C15_PluggedExactlyInWindow ==
  DayCombined =>
    LET s == year_in.temp_ev.battery.schedule
        timesteps == Labels(day_dataf)
        profile == get_plugged_profile(s, timesteps)
    IN /\ Len(profile) = Len(timesteps)
       /\ \A i \in 1 .. Len(timesteps) :
            /\ is_plugged(s, timesteps[i]) = InWindow(s, timesteps[i])
            /\ profile[i] = InWindow(s, timesteps[i])
            /\ day_dataf[i].charger_load_profile =
                 IF InWindow(s, timesteps[i])
                   THEN DayAvailabilityAt(timesteps[i]) ELSE 0

\* a day on which the window opens after the first slot and closes before the
\* last: the slots at both ends of the window are offered power, the slots
\* just outside it have room and are offered none
C15_Witness ==
  /\ DayCombined
  /\ LET s == year_in.temp_ev.battery.schedule
     IN \E a, b, c, d \in 1 .. Len(day_dataf) :
          /\ TimeOf(day_dataf[a].ts) = s.arrival_time
          /\ TimeOf(day_dataf[b].ts) = s.departure_time
          /\ a # b
          /\ day_dataf[a].charger_load_profile > 0
          /\ day_dataf[b].charger_load_profile > 0
          /\ TimeOf(day_dataf[c].ts) < s.arrival_time
          /\ TimeOf(day_dataf[d].ts) > s.departure_time
          /\ DayAvailabilityAt(day_dataf[c].ts) > 0
          /\ DayAvailabilityAt(day_dataf[d].ts) > 0
          /\ day_dataf[c].charger_load_profile = 0
          /\ day_dataf[d].charger_load_profile = 0

\* the headroom energy of the first i rows of a ranked day
RankedHeadroomTo(ranked, i) ==
  SumTo([k \in 1 .. Len(ranked) |-> ToEnergy(ranked[k].charger_load_profile)], i)
\* row s of a ranked day is the first at which the cumulative headroom energy
\* reaches or exceeds the energy required
StoppingSlot(ranked, s, energy_required) ==
  /\ RankedHeadroomTo(ranked, s) >= energy_required
  /\ \A k \in 1 .. s - 1 : RankedHeadroomTo(ranked, k) < energy_required
\* the walk over the ranked day gave new_dataf: full headroom before the
\* stopping slot, the remaining deficit at it, zero after it
RankOrderWalk(ranked, new_dataf, energy_required) ==
  \A s \in 1 .. Len(ranked) :
    StoppingSlot(ranked, s, energy_required) =>
      \A i \in 1 .. Len(ranked) :
        LET allocated == RowAt(new_dataf, ranked[i].ts).charger_load_profile
        IN /\ i < s => allocated = ranked[i].charger_load_profile
           /\ i = s => ToEnergy(allocated) =
                         energy_required - RankedHeadroomTo(ranked, s - 1)
           /\ i > s => allocated = 0

\* C16: in the step that walks a day's ranked slots with requested_energy > 0,
\* every slot ranked before the stopping slot (the first at which the
\* cumulative headroom energy reaches or exceeds requested_energy) receives
\* its full headroom, the stopping slot receives exactly the remaining
\* deficit, and every slot ranked after it receives zero.
C16_RankOrderWalk ==
  [][(day_pc = "apply_new_charging_profile" /\ DayRequested > 0)
       => RankOrderWalk(day_dataf, day_dataf', DayRequested)]_vars

\* a walked day with the three cases: a slot that kept its positive headroom,
\* a slot that was given part of its headroom, a slot with positive headroom
\* that was given none
C16_Witness ==
  /\ day_pc = "for" /\ new_frames # <<>> /\ DayRequested > 0
  /\ \E a, b, c \in 1 .. Len(day_dataf) :
       LET headroom(i) == RowAt(DayHeadroom, day_dataf[i].ts).charger_load_profile
           allocated(i) == day_dataf[i].charger_load_profile
       IN /\ allocated(a) = headroom(a) /\ headroom(a) > 0
          /\ 0 < allocated(b) /\ allocated(b) < headroom(b)
          /\ allocated(c) = 0 /\ headroom(c) > 0

\* Charger.charging_profile has run with the year profile of the vehicle
VehicleCharged == day_pc = "charged"

\* C18: after Charger.charging_profile, at each timestep the energy held in
\* the charger's recorder equals the sum of the energies its vehicles
\* consumed at that timestep (here the charger has one vehicle), and the
\* returned power series is that sum divided by the sampling interval.
C18_ChargerRecordsConsumedEnergy ==
  VehicleCharged =>
    \A t \in Timesteps :
      /\ ColumnValues(charged.sim_charger.data_recorder, "ENERGY_INPUT")[t]
           = charged.dispatched_energy[t]
      /\ charged.total_charger_output[t]
           = ToPower(charged.dispatched_energy[t])

\* the values the battery model of the vehicle produces when the steps of the
\* year profile are applied in timestep order: <<soc, energy, plugged>> of
\* each step
BatterySteps ==
  ChargingSteps(year_in.temp_ev.battery, Labels(charger_load_profile),
                [i \in 1 .. Len(charger_load_profile) |->
                   ToEnergy(charger_load_profile[i].charger_load_profile)],
                1)[2]

\* C19: after EV.charging_profile(timesteps, offers), for every timestep, the
\* zero-offer and the unplugged ones included, the vehicle's recorder holds
\* the battery's state of charge after that step, the energy consumed at that
\* step and the plugged flag, each equal to the value the battery model
\* produced when the steps were applied in timestep order.
C19_VehicleRecordsBatterySteps ==
  VehicleCharged =>
    LET ev == charged.sim_charger.ev_list[1]
        recorded == ev.data_recorder
    IN \A i \in 1 .. Len(charger_load_profile) :
         LET t == charger_load_profile[i].ts
         IN /\ recorded["SOC"][t] * SocDen(ev.battery) = BatterySteps[i].soc
            /\ recorded["ENERGY_INPUT"][t] * Scale = BatterySteps[i].energy
            /\ recorded["PLUGGED"][t] = BatterySteps[i].plugged

\* the PV availability of timestep t in the PV scenario: the series the
\* strategy was given is the target column of its site frame
PVAt(t) == TargetAt(t)

\* C21: under the PV strategy, of two plugged slots of a day with positive
\* headroom and different PV availability, the slot with the higher PV
\* availability is allocated before the slot with the lower one: the lower
\* one has power only when the higher one has its full headroom.
C21_PVHighestFirst ==
  ScenarioDone("PV") =>
    \A d \in Dates(year_in.site_data) :
      \A i, j \in PluggedSlotsOf(d) :
        (/\ HeadroomAt(i) > 0 /\ HeadroomAt(j) > 0
         /\ PVAt(i) > PVAt(j)
         /\ AllocatedAt(j) > 0)
          => AllocatedAt(i) = HeadroomAt(i)

\* C24: for every timestep of a day, the ceiling offered to the allocation is
\* 0 if the vehicle is not plugged at that timestep, and otherwise
\* max(0, min(charger_max_output, import_limit - existing_site_load)), the
\* existing load being the site energy of the timestep converted to power
\* with the sampling interval.
C24_CeilingIsFlooredHeadroom ==
  DayCombined =>
    /\ Labels(day_dataf) = Labels(DayInput)
    /\ \A i \in 1 .. Len(day_dataf) :
         LET t == day_dataf[i].ts
             existing_site_load == ToPower(RowAt(DayInput, t).site_energy)
             import_limit == RowAt(DayLimit, t).peak_import
         IN day_dataf[i].charger_load_profile =
              IF is_plugged(year_in.temp_ev.battery.schedule, t)
                THEN Max(0, Min(year_in.max_charger_output,
                                import_limit - existing_site_load))
                ELSE 0

\* a day with a plugged slot whose load is above the import limit (ceiling 0),
\* a plugged slot the limit binds at, and an unplugged slot with room
\* (ceiling 0)
C24_Witness ==
  /\ DayCombined
  /\ \E a, b, d \in 1 .. Len(day_dataf) :
       LET plugged(i) == is_plugged(year_in.temp_ev.battery.schedule, day_dataf[i].ts)
           room(i) == RowAt(DayLimit, day_dataf[i].ts).peak_import
                        - ToPower(day_dataf[i].site_energy)
       IN /\ plugged(a) /\ room(a) < 0 /\ day_dataf[a].charger_load_profile = 0
          /\ plugged(b) /\ 0 < room(b) /\ room(b) < year_in.max_charger_output
          /\ day_dataf[b].charger_load_profile = room(b)
          /\ ~plugged(d) /\ room(d) > 0 /\ day_dataf[d].charger_load_profile = 0

\* the energy of the greedy allocation, the headroom energy and the target
\* value of row i of the day that was walked
GreedyEnergy(i) == ToEnergy(day_dataf[i].charger_load_profile)
HeadroomEnergy(i) ==
  ToEnergy(RowAt(DayHeadroom, day_dataf[i].ts).charger_load_profile)
DayTarget(i) == RowAt(DayInput, day_dataf[i].ts).target
\* the allocations of energy to the rows of the day that respect every row's
\* headroom and deliver the same total energy as the greedy allocation
SameTotalAllocations ==
  LET n == Len(day_dataf)
      greedy == [i \in 1 .. n |-> GreedyEnergy(i)]
  IN {x \in [1 .. n -> 0 .. ToEnergy(year_in.max_charger_output)] :
        /\ \A i \in 1 .. n : x[i] <= HeadroomEnergy(i)
        /\ SumTo(x, n) = SumTo(greedy, n)}
\* the sum over the rows of target value times allocated energy
TargetCost(x) ==
  SumTo([i \in 1 .. Len(day_dataf) |-> DayTarget(i) * x[i]], Len(day_dataf))

\* C25: for one vehicle-day, among all allocations that respect every slot's
\* headroom (0 <= allocation <= headroom) and deliver the same total energy
\* as the greedy allocation, the greedy allocation has the minimum value of
\* the sum over slots of target value times allocated energy.
C25_GreedyMinimizesTargetCost ==
  (day_pc = "for" /\ new_frames # <<>>) =>
    \A x \in SameTotalAllocations :
      TargetCost([i \in 1 .. Len(day_dataf) |-> GreedyEnergy(i)]) <= TargetCost(x)

\* a walked day on which the choice matters: another allocation of the same
\* positive total within the headroom costs strictly more than the greedy one
C25_Witness ==
  /\ day_pc = "for" /\ new_frames # <<>>
  /\ DayRequested > 0
  /\ \E x \in SameTotalAllocations :
       /\ SumTo(x, Len(day_dataf)) > 0
       /\ TargetCost([i \in 1 .. Len(day_dataf) |-> GreedyEnergy(i)]) < TargetCost(x)

\* the requirement of the vehicle the year loop was given: target energy less
\* stored energy of its battery
RequirementAtLoopStart ==
  LET b == year_in.temp_ev.battery
  IN (b.battery_size * b.target_soc) \div SocDen(b)
       - (b.battery_size * b.current_soc) \div SocDen(b)
\* the energy a day frame allocates, and the date of the frame
FrameEnergy(frame) ==
  SumTo([i \in 1 .. Len(frame) |-> ToEnergy(frame[i].charger_load_profile)],
        Len(frame))
FrameDate(frame) == DateOf(frame[1].ts)
\* the frame of a day is the plan for requirement r and nothing else: r as far
\* as the day's headroom goes
PlannedWith(frame, r) ==
  FrameEnergy(frame) =
    IF r >= 0 THEN Min(r, HeadroomEnergyOver(FrameDate(frame))) ELSE r

\* C28: get_charging_profile_for_year changes neither the vehicle's battery
\* state, nor its recorder, nor the site series it is given, and every day of
\* the year is planned with the same requested_energy, the battery's value
\* when the year loop starts: energy left unallocated on one day is never
\* added to a later day's requirement.
C28_YearLoopPlansEveryDayAlike ==
  [][/\ year_in' = year_in
     /\ day_pc = "apply_new_charging_profile"
          => PlannedWith(day_dataf', RequirementAtLoopStart)]_vars

\* two days are planned: one has less headroom than the requirement and
\* leaves part of it unallocated, the other has more headroom than the
\* requirement and is given the requirement, no more
C28_Witness ==
  /\ day_pc = "for" /\ RequirementAtLoopStart > 0
  /\ \E i, j \in 1 .. Len(new_frames) :
       /\ FrameEnergy(new_frames[i]) < RequirementAtLoopStart
       /\ FrameEnergy(new_frames[j]) = RequirementAtLoopStart
       /\ HeadroomEnergyOver(FrameDate(new_frames[j])) > RequirementAtLoopStart
  /\ year_in.temp_ev.battery.current_soc = year_in.temp_ev.battery.initial_soc

\* C29: for requested_energy >= 0 the energy allocated to a vehicle over a day
\* equals min(requested_energy, total headroom energy of the day's slots):
\* the optimizer delivers less than the requirement only when the whole
\* day's headroom is insufficient.
C29_DayEnergyIsMinOfRequestAndHeadroom ==
  (day_pc = "for" /\ new_frames # <<>> /\ DayRequested >= 0) =>
    DayAllocatedEnergy = Min(DayRequested, HeadroomEnergyOver(temp_date))

\* a walked day whose headroom is positive and below the requirement: the day
\* is given all of its headroom
C29_Witness ==
  /\ day_pc = "for" /\ new_frames # <<>>
  /\ 0 < HeadroomEnergyOver(temp_date)
  /\ HeadroomEnergyOver(temp_date) < DayRequested
  /\ DayAllocatedEnergy = HeadroomEnergyOver(temp_date)

----------------------------------------------------------------------------
(* Claims about the Battery state machine, checked under SpecBattery *)

\* the constructor was given SOC arguments that are not negative (it clamps
\* the arguments above 1, and leaves the ones below 0 as they are)
NonNegativeSocArgs ==
  constructed.initial_soc >= 0 /\ constructed.target_soc >= 0

\* C4: from any constructed Battery and after any sequence of run_model steps
\* with non-negative offers, 0 <= current_soc <= 1. Stated for the batteries
\* whose SOC arguments were not negative, where the claim does not rest on the
\* constructor's clamping.
C4_SocWithinUnitInterval ==
  NonNegativeSocArgs =>
    (0 <= battery.current_soc /\ battery.current_soc <= SocDen(battery))

\* C5: after a run_model step at a timestep where the vehicle is not plugged,
\* current_soc is the initial_soc fixed at construction and the step returned 0.
C5_ResetLaw ==
  (last.stepped /\ ~last.plugged) =>
     /\ battery.current_soc = constructed.initial_soc
     /\ battery.initial_soc = constructed.initial_soc
     /\ last.energy = 0

\* an unplugged step that was offered energy, on a battery with losses whose
\* SOC had moved away from its initial value
C5_Witness ==
  /\ last.stepped /\ ~last.plugged /\ last.offer > 0
  /\ battery.battery_losses > 0
  /\ last.soc_before # constructed.initial_soc
  /\ battery.current_soc = constructed.initial_soc

\* C6: a run_model step given a non-negative offer returns a consumed energy e
\* with 0 <= e <= offer, whatever the battery state (current_soc below, equal
\* to or above target_soc; plugged or not). Stated for the batteries whose SOC
\* arguments were not negative.
C6_ConsumedWithinOffer ==
  (NonNegativeSocArgs /\ last.stepped) =>
    (0 <= last.energy /\ last.energy <= last.offer)

\* the SOC (numerator) and the energy stored after the losses of the last
\* step, before its charge
SocAfterLosses == last.soc_before - battery.battery_losses
StoredAfterLosses == (battery.battery_size * SocAfterLosses) \div SocDen(battery)
\* the last step was a plugged step whose SOC after losses was not the target
ChargingStep ==
  last.stepped /\ last.plugged /\ SocAfterLosses # battery.target_soc

\* C23: at a plugged step whose current_soc after losses differs from
\* target_soc, with offer e: if the stored energy plus e exceeds capacity *
\* target_soc the step consumes exactly target_energy_stored -
\* current_energy_stored and sets current_soc to target_soc; otherwise it
\* consumes e and current_soc rises by e / capacity. In both cases the energy
\* stored after the step is the energy stored after losses plus the energy
\* consumed.
C23_ChargeClippedAtTarget ==
  ChargingStep =>
    /\ IF StoredAfterLosses + last.offer > target_energy_stored(battery)
         THEN /\ last.energy = target_energy_stored(battery) - StoredAfterLosses
              /\ battery.current_soc = battery.target_soc
         ELSE /\ last.energy = last.offer
              /\ battery.current_soc * battery.battery_size =
                   SocAfterLosses * battery.battery_size
                     + last.offer * SocDen(battery)
    /\ current_energy_stored(battery) = StoredAfterLosses + last.energy

\* a step with losses that was clipped: part of the offer was consumed and the
\* SOC is the target
C23_Witness ==
  /\ ChargingStep
  /\ battery.battery_losses > 0
  /\ 0 < last.energy /\ last.energy < last.offer
  /\ battery.current_soc = battery.target_soc

\* a battery without losses whose initial SOC is at most its target SOC
LosslessBelowTarget ==
  /\ battery.battery_losses = 0
  /\ battery.initial_soc <= battery.target_soc

\* C30: with a zero loss rate and initial_soc <= target_soc, over any sequence
\* of run_model steps with non-negative offers, current_soc never exceeds
\* target_soc, is non-decreasing across consecutive plugged steps, and once it
\* equals target_soc it stays there with zero consumption at each step until
\* the next unplugged step.
C30_TargetIsAbsorbingWhilePlugged ==
  [][LosslessBelowTarget =>
       /\ battery.current_soc <= battery.target_soc
       /\ battery'.current_soc <= battery.target_soc
       /\ (last.stepped /\ last.plugged /\ last'.plugged)
            => battery'.current_soc >= battery.current_soc
       /\ (battery.current_soc = battery.target_soc /\ last'.plugged)
            => (battery'.current_soc = battery.target_soc /\ last'.energy = 0)]_vars

\* a lossless battery that started below its target, was at the target before
\* a plugged step, was offered energy, consumed none and is still at the target
C30_Witness ==
  /\ LosslessBelowTarget
  /\ battery.initial_soc < battery.target_soc
  /\ last.stepped /\ last.plugged /\ last.offer > 0
  /\ last.soc_before = battery.target_soc
  /\ last.energy = 0
  /\ battery.current_soc = battery.target_soc

=============================================================================
